---- MODULE Spec2Model ----
(***************************************************************************)
(* competitest: discovery of test cases from a filename pattern, bounded   *)
(* parallel execution of one child process per test under a timeout,       *)
(* trimmed byte comparison, and the final report.                          *)
(*                                                                         *)
(* Strings and paths are sequences of one-character strings; file and      *)
(* pipe contents are sequences of byte values.  Offsets are Rust's         *)
(* zero-based byte offsets.                                                *)
(***************************************************************************)
EXTENDS Integers, Sequences, FiniteSets, TLC

\* ------------------------------------------------------------ bounds
MaxParallel == 2
MaxTimeout == 1
\* capacity of the pipe to the child's stdin, scaled down from the
\* operating system's 64 KiB
PipeCap == 1
\* longest byte string the trimmed comparison is run on
MaxLen == 3

VARIABLES
    args,          \* parsed command line: task, in_pattern, out_pattern, timeout, parallel
    fs,            \* files on disk, in glob order: <<[path, data]>>
    prog,          \* the command under test: stdin it read |-> stdout it prints
    main_pc,       \* position of main
    tests,         \* Vec<Test> returned by get_tests
    test_count,
    permits,       \* permits available in the semaphore
    failed_tests,  \* Mutex<usize>
    progress,      \* progress_bar position
    pc,            \* position of each spawned task
    child,         \* each task's child process
    stdin_rx,      \* bytes each child has received on its stdin
    stdin_open,    \* whether the write end of the child's stdin is still open
    clock,         \* ticks left on each task's timeout, NoTimer when none exists
    spawned,       \* how many child processes each task has spawned
    queued,        \* ticks that passed while a task waits for a permit
    ret,           \* value each task returned
    results,       \* task returns in completion order (FuturesUnordered)
    stats          \* TestStats

vars == <<args, fs, prog, main_pc, tests, test_count, permits, failed_tests,
          progress, pc, child, stdin_rx, stdin_open, clock, spawned, queued, ret,
          results, stats>>

\* ------------------------------------------------------------ strings
Min(a, b) == IF a < b THEN a ELSE b

PLACE_TASK == <<"{", "t", "a", "s", "k", "}">>
PLACE_TEST == <<"{", "t", "e", "s", "t", "}">>
STAR == <<"*">>

\* sub occurs in s at zero-based offset i
MatchesAt(s, sub, i) ==
    /\ i + Len(sub) <= Len(s)
    /\ SubSeq(s, i + 1, i + Len(sub)) = sub

\* str::find(..).is_some()
Contains(s, sub) == \E i \in 0..Len(s) : MatchesAt(s, sub, i)

\* str::find: zero-based offset of the first occurrence
Find(s, sub) ==
    CHOOSE i \in 0..Len(s) :
        MatchesAt(s, sub, i) /\ \A j \in 0..(i - 1) : ~MatchesAt(s, sub, j)

\* str::replace: every non-overlapping occurrence, left to right
RECURSIVE Replace(_, _, _)
Replace(s, from, to) ==
    IF s = <<>> THEN <<>>
    ELSE IF MatchesAt(s, from, 0)
         THEN to \o Replace(SubSeq(s, Len(from) + 1, Len(s)), from, to)
         ELSE <<Head(s)>> \o Replace(Tail(s), from, to)

\* glob matching of one path: * is any run and ? any one character of a
\* path component, everything else is literal
RECURSIVE WildMatch(_, _)
WildMatch(p, s) ==
    IF p = <<>> THEN s = <<>>
    ELSE IF Head(p) = "*"
         THEN \/ WildMatch(Tail(p), s)
              \/ s # <<>> /\ Head(s) # "/" /\ WildMatch(p, Tail(s))
    ELSE IF Head(p) = "?"
         THEN s # <<>> /\ Head(s) # "/" /\ WildMatch(Tail(p), Tail(s))
    ELSE s # <<>> /\ Head(s) = Head(p) /\ WildMatch(Tail(p), Tail(s))

\* glob(pattern): the paths on disk that match, in the walk's order
Glob(pattern, disk) ==
    LET hit(f) == WildMatch(pattern, f.path)
        found == SelectSeq(disk, hit)
    IN [i \in 1..Len(found) |-> found[i].path]

\* glob(pattern) is Err(PatternError): two or more stars in a row that are
\* not a path component of their own
InvalidGlob(p) ==
    \E i \in 1..(Len(p) - 1) :
        /\ p[i] = "*"
        /\ p[i + 1] = "*"
        /\ ~( /\ (i = 1 \/ p[i - 1] = "/")
              /\ (i + 1 = Len(p) \/ p[i + 2] = "/") )

\* the directory parts of a pattern: what stands before each separator
DirPrefixes(p) == {SubSeq(p, 1, i - 1) : i \in {j \in 1..Len(p) : p[j] = "/"}}

\* the Err(GlobError) items of the walk: the directories the pattern
\* descends into that cannot be read
GlobErrors(pattern, disk) ==
    {i \in 1..Len(disk) :
        /\ disk[i].denied
        /\ \E d \in DirPrefixes(pattern) : WildMatch(d, disk[i].path)}

\* ------------------------------------------------------------ discovery
NoTest == [name |-> <<>>, in_file |-> <<>>, out_file |-> <<>>]

\* the closure get_tests maps over every matched path x
TestOfPath(a, task_in_pattern, x) ==
    IF ~Contains(task_in_pattern, PLACE_TEST)
    THEN [kind |-> "Err", test |-> NoTest]
    ELSE LET test_pos == Find(task_in_pattern, PLACE_TEST)
             suffix == Len(task_in_pattern) - (test_pos + Len(PLACE_TEST))
             end == Len(x) - suffix
         IN IF end < test_pos
            THEN [kind |-> "Panic", test |-> NoTest]
            ELSE LET test_name == SubSeq(x, test_pos + 1, end)
                 IN [kind |-> "Ok",
                     test |-> [name |-> test_name,
                               in_file |-> x,
                               out_file |-> Replace(Replace(a.out_pattern, PLACE_TASK, a.task),
                                                    PLACE_TEST, test_name)]]

\* get_tests: Ok with one Test per matched path, or the first failure.
\* flatten() iterates each item of the walk as a Result, which yields
\* nothing for an Err(GlobError): only the paths of Glob are left.
get_tests(a, disk) ==
    LET task_in_pattern == Replace(a.in_pattern, PLACE_TASK, a.task)
        paths == Glob(Replace(task_in_pattern, PLACE_TEST, STAR), disk)
        item(i) == TestOfPath(a, task_in_pattern, paths[i])
        bad == {i \in 1..Len(paths) : item(i).kind # "Ok"}
    IN IF InvalidGlob(Replace(task_in_pattern, PLACE_TEST, STAR))
       THEN [kind |-> "Err", tests |-> <<>>]
       ELSE IF bad = {}
       THEN [kind |-> "Ok", tests |-> [i \in 1..Len(paths) |-> item(i).test]]
       ELSE [kind |-> item(CHOOSE i \in bad : \A j \in bad : i <= j).kind,
             tests |-> <<>>]

\* ------------------------------------------------------------ bytes
\* mutant: the carriage return is no whitespace
IsWhitespaceNoCr(c) == c = 9 \/ c = 32 \/ c = 10

\* mutant: one whitespace byte at most is cut from each end
TrimOneEach(s) ==
    LET ws(c) == c = 9 \/ c = 32 \/ c = 10 \/ c = 13
        a == IF s # <<>> /\ ws(s[1]) THEN Tail(s) ELSE s
    IN IF a # <<>> /\ ws(a[Len(a)]) THEN SubSeq(a, 1, Len(a) - 1) ELSE a

\* SliceTrimExt::trim and its is_whitespace
is_whitespace(c) == c = 9 \/ c = 32 \/ c = 10 \/ c = 13

trim(s) ==
    LET keep == {i \in 1..Len(s) : ~is_whitespace(s[i])}
    IN IF keep # {}
       THEN LET first == CHOOSE i \in keep : \A j \in keep : i <= j
                last == CHOOSE i \in keep : \A j \in keep : j <= i
            IN SubSeq(s, first, last)
       ELSE <<>>

\* String::from_utf8(..).is_ok()
IsCont(b) == b >= 128 /\ b <= 191

RECURSIVE ValidUtf8(_)
ValidUtf8(s) ==
    IF s = <<>> THEN TRUE
    ELSE LET b == Head(s)
             n == Len(s)
         IN IF b <= 127 THEN ValidUtf8(Tail(s))
            ELSE IF b >= 194 /\ b <= 223
                 THEN n >= 2 /\ IsCont(s[2]) /\ ValidUtf8(SubSeq(s, 3, n))
            ELSE IF b >= 224 /\ b <= 239
                 THEN /\ n >= 3
                      /\ IsCont(s[2])
                      /\ (b = 224 => s[2] >= 160)
                      /\ (b = 237 => s[2] <= 159)
                      /\ IsCont(s[3])
                      /\ ValidUtf8(SubSeq(s, 4, n))
            ELSE IF b >= 240 /\ b <= 244
                 THEN /\ n >= 4
                      /\ IsCont(s[2])
                      /\ (b = 240 => s[2] >= 144)
                      /\ (b = 244 => s[2] <= 143)
                      /\ IsCont(s[3])
                      /\ IsCont(s[4])
                      /\ ValidUtf8(SubSeq(s, 5, n))
            ELSE FALSE

\* ------------------------------------------------------------ files
Exists(disk, path) == \E i \in 1..Len(disk) : disk[i].path = path

FileAt(disk, path) == disk[CHOOSE i \in 1..Len(disk) : disk[i].path = path]

\* fs::read(path).is_ok(): the path exists and is a regular file
Readable(disk, path) == Exists(disk, path) /\ FileAt(disk, path).file

\* Test::get_input, Test::get_output
get_input(disk, test) == FileAt(disk, test.in_file).data
get_output(disk, test) == FileAt(disk, test.out_file).data

\* Test::is_correct, given that the expected output was read
is_correct(disk, test, actual) == trim(actual) = trim(get_output(disk, test))

\* ------------------------------------------------------------ results
NoRet == [kind |-> "none", name |-> <<>>, correct |-> FALSE]
ErrRet == [kind |-> "Err", name |-> <<>>, correct |-> FALSE]
TimedOut(name) == [kind |-> "TimedOut", name |-> name, correct |-> FALSE]
Finished(name, correct) == [kind |-> "Finished", name |-> name, correct |-> correct]

\* Test::run once the child has terminated with stdout `out`: the Ok arm
Completed(disk, test, out) ==
    IF ~Readable(disk, test.out_file) THEN ErrRet
    ELSE IF is_correct(disk, test, out)
         THEN IF Readable(disk, test.in_file) THEN Finished(test.name, TRUE) ELSE ErrRet
    ELSE IF /\ ValidUtf8(trim(get_output(disk, test)))
            /\ ValidUtf8(trim(out))
            /\ Readable(disk, test.in_file)
         THEN Finished(test.name, FALSE)
    ELSE ErrRet

\* ------------------------------------------------------------ inputs
TASK == <<"a">>
OUT_PATTERN == PLACE_TASK \o PLACE_TEST \o <<".", "o">>

\* "{task}{test}.i", "{task}.i" (no test placeholder), "*/{task}{test}",
\* "{task}*{test}" (no valid glob pattern)
InPatterns ==
    { PLACE_TASK \o PLACE_TEST \o <<".", "i">>,
      PLACE_TASK \o <<".", "i">>,
      <<"*", "/">> \o PLACE_TASK \o PLACE_TEST,
      PLACE_TASK \o STAR \o PLACE_TEST }

File(path, data) == [path |-> path, file |-> TRUE, data |-> data, denied |-> FALSE]
Dir(path) == [path |-> path, file |-> FALSE, data |-> <<>>, denied |-> FALSE]
\* a directory that cannot be read
Denied(path) == [path |-> path, file |-> FALSE, data |-> <<>>, denied |-> TRUE]

Stdins == UNION {[1..k -> {50}] : k \in 0..2}
\* a command that copies its stdin and ends the line, and one that prints
\* a byte that is no text
Echo == [s \in Stdins |-> s \o <<10>>]
Garbage == [s \in Stdins |-> <<255>>]

Worlds ==
    { \* nothing on disk
      [fs |-> <<>>, prog |-> Echo],
      \* a.i alone, no expected output
      [fs |-> << File(<<"a", ".", "i">>, <<50>>) >>, prog |-> Echo],
      \* three tests: "" passes, "1" fails, "22" is longer than the pipe
      [fs |-> << File(<<"a", ".", "i">>, <<>>),
                 File(<<"a", ".", "o">>, <<32>>),
                 File(<<"a", "1", ".", "i">>, <<50>>),
                 File(<<"a", "1", ".", "o">>, <<50, 50>>),
                 File(<<"a", "2", "2", ".", "i">>, <<50, 50>>),
                 File(<<"a", "2", "2", ".", "o">>, <<50, 50>>) >>,
       prog |-> Echo],
      \* a regular input and a directory that matches too; stdout is no text
      [fs |-> << File(<<"a", "1", ".", "i">>, <<50>>),
                 File(<<"a", "1", ".", "o">>, <<50>>),
                 Dir(<<"a", "2", "2", ".", "i">>) >>,
       prog |-> Garbage],
      \* the same file name in two directories
      [fs |-> << File(<<"a", "1", ".", "o">>, <<50>>),
                 File(<<"x", "/", "a", "1">>, <<50>>),
                 File(<<"y", "/", "a", "1">>, <<50>>) >>,
       prog |-> Echo],
      \* one readable directory with a test and one unreadable directory
      [fs |-> << File(<<"a", "1", ".", "o">>, <<50>>),
                 File(<<"x", "/", "a", "1">>, <<50>>),
                 Denied(<<"z">>) >>,
       prog |-> Echo] }

\* ------------------------------------------------------------ state machine
NoTimer == -1

Tasks == DOMAIN pc

\* the command lines Args::parse accepts
ArgsSet ==
    [task : {TASK}, in_pattern : InPatterns, out_pattern : {OUT_PATTERN},
     timeout : 0..MaxTimeout, parallel : 0..MaxParallel]

Init ==
    /\ args \in ArgsSet
    /\ \E w \in Worlds : fs = w.fs /\ prog = w.prog
    /\ main_pc = "get_tests"
    /\ tests = <<>>
    /\ test_count = 0
    /\ permits = 0
    /\ failed_tests = 0
    /\ progress = 0
    /\ pc = <<>>
    /\ child = <<>>
    /\ stdin_rx = <<>>
    /\ stdin_open = <<>>
    /\ clock = <<>>
    /\ spawned = <<>>
    /\ queued = <<>>
    /\ ret = <<>>
    /\ results = <<>>
    /\ stats = [pass |-> <<>>, fail |-> <<>>, timeout |-> <<>>]

\* main up to the collect: get_tests, the semaphore, one spawned task per test
GetTests ==
    /\ main_pc = "get_tests"
    /\ LET r == get_tests(args, fs)
       IN IF r.kind = "Ok"
          THEN /\ main_pc' = "collect"
               /\ tests' = r.tests
               /\ test_count' = Len(r.tests)
               /\ permits' = args.parallel
               /\ pc' = [t \in 1..Len(r.tests) |-> "acquire"]
               /\ child' = [t \in 1..Len(r.tests) |-> "none"]
               /\ stdin_rx' = [t \in 1..Len(r.tests) |-> <<>>]
               /\ stdin_open' = [t \in 1..Len(r.tests) |-> FALSE]
               /\ clock' = [t \in 1..Len(r.tests) |-> NoTimer]
               /\ spawned' = [t \in 1..Len(r.tests) |-> 0]
               /\ queued' = [t \in 1..Len(r.tests) |-> 0]
               /\ ret' = [t \in 1..Len(r.tests) |-> NoRet]
          ELSE /\ main_pc' = (IF r.kind = "Err" THEN "error" ELSE "panic")
               /\ UNCHANGED <<tests, test_count, permits, pc, child, stdin_rx,
                              stdin_open, clock, spawned, queued, ret>>
    /\ UNCHANGED <<args, fs, prog, failed_tests, progress, results, stats>>

\* mutant: the permit count is compared off by one
CanAcquireOffByOne == permits >= 0

\* Semaphore::acquire is ready
CanAcquire == permits > 0

\* mutant: the deadline is counted from the creation of the task
NewTimerSinceCreation(t) == args.timeout - queued[t]

\* the timeout created by timeout(args.timeout, ..) when run() is entered
NewTimer(t) == args.timeout

\* a task holds a permit from the acquire until it returns
HoldsPermit(t) == pc[t] \in {"get_input", "wait", "tally"}

\* mutant: kill_on_drop is not set
DropChildNoKill(c) == c

\* kill_on_drop(true): dropping the Child kills a process that still runs
DropChild(c) == IF c = "running" THEN "killed" ELSE c

\* mutant: every task's child is killed
AfterDropAll(t) == [s \in Tasks |-> IF child[s] = "running" THEN "killed" ELSE child[s]]

\* the children after task t's future, which owns its Child, is dropped
AfterDrop(t) == [child EXCEPT ![t] = DropChild(@)]

\* the task takes a permit, run() creates the timeout and the first poll
\* spawns the command
Acquire(t) ==
    /\ pc[t] = "acquire"
    /\ CanAcquire
    /\ permits' = permits - 1
    /\ \/ /\ child' = [child EXCEPT ![t] = "running"]
          /\ stdin_open' = [stdin_open EXCEPT ![t] = TRUE]
          /\ spawned' = [spawned EXCEPT ![t] = @ + 1]
          /\ clock' = [clock EXCEPT ![t] = NewTimer(t)]
          /\ pc' = [pc EXCEPT ![t] = "get_input"]
          /\ ret' = ret
       \/ /\ ret' = [ret EXCEPT ![t] = ErrRet]
          /\ pc' = [pc EXCEPT ![t] = "tally"]
          /\ UNCHANGED <<child, stdin_open, clock, spawned>>
    /\ queued' = [queued EXCEPT ![t] = 0]
    /\ UNCHANGED <<args, fs, prog, main_pc, tests, test_count, failed_tests,
                   progress, stdin_rx, results, stats>>

\* what one AsyncWriteExt::write call puts into the pipe: all of a payload
\* that fits, else at least what fits
Written(payload) == {n \in 0..Len(payload) : n >= Min(Len(payload), PipeCap)}

\* the input file is read and written to the child's stdin, stdin is dropped
FeedStdin(t) ==
    /\ pc[t] = "get_input"
    /\ IF ~Readable(fs, tests[t].in_file)
          \/ (child[t] = "exited" /\ get_input(fs, tests[t]) # <<>>)
       THEN \* the read failed, or the write hit a closed pipe
            /\ ret' = [ret EXCEPT ![t] = ErrRet]
            /\ child' = AfterDrop(t)
            /\ clock' = [clock EXCEPT ![t] = NoTimer]
            /\ pc' = [pc EXCEPT ![t] = "tally"]
            /\ stdin_rx' = stdin_rx
       ELSE /\ \E n \in Written(get_input(fs, tests[t])) :
                   stdin_rx' = [stdin_rx EXCEPT ![t] = SubSeq(get_input(fs, tests[t]), 1, n)]
            /\ pc' = [pc EXCEPT ![t] = "wait"]
            /\ UNCHANGED <<ret, child, clock>>
    /\ stdin_open' = [stdin_open EXCEPT ![t] = FALSE]
    /\ UNCHANGED <<args, fs, prog, main_pc, tests, test_count, permits,
                   failed_tests, progress, spawned, queued, results, stats>>

\* the command terminates by itself
ChildExit(t) ==
    /\ child[t] = "running"
    /\ child' = [child EXCEPT ![t] = "exited"]
    /\ UNCHANGED <<args, fs, prog, main_pc, tests, test_count, permits,
                   failed_tests, progress, pc, stdin_rx, stdin_open, clock,
                   spawned, queued, ret, results, stats>>

\* wait_with_output is ready: the Ok arm of run
Complete(t) ==
    /\ pc[t] = "wait"
    /\ child[t] = "exited"
    /\ ret' = [ret EXCEPT ![t] = Completed(fs, tests[t], prog[stdin_rx[t]])]
    /\ clock' = [clock EXCEPT ![t] = NoTimer]
    /\ pc' = [pc EXCEPT ![t] = "tally"]
    /\ UNCHANGED <<args, fs, prog, main_pc, tests, test_count, permits,
                   failed_tests, progress, child, stdin_rx, stdin_open, spawned,
                   queued, results, stats>>

\* mutant: the timeout covers the write to stdin only, not the wait
TimerArmedInputOnly(t) == pc[t] = "get_input"

\* the Timeout is polled while its future is pending
TimerArmed(t) ==
    \/ pc[t] = "get_input"
    \/ pc[t] = "wait" /\ child[t] # "exited"

\* the timeout elapsed: the future is dropped, the Err arm of run
TimerFire(t) ==
    /\ TimerArmed(t)
    /\ clock[t] = 0
    /\ child' = AfterDrop(t)
    /\ stdin_open' = [stdin_open EXCEPT ![t] = FALSE]
    /\ ret' = [ret EXCEPT ![t] = TimedOut(tests[t].name)]
    /\ clock' = [clock EXCEPT ![t] = NoTimer]
    /\ pc' = [pc EXCEPT ![t] = "tally"]
    /\ UNCHANGED <<args, fs, prog, main_pc, tests, test_count, permits,
                   failed_tests, progress, stdin_rx, spawned, queued, results,
                   stats>>

\* the task waits for a permit and has not yet waited a whole timeout
Queueing(t) == pc[t] = "acquire" /\ queued[t] < args.timeout

\* time passes: for every running timeout and for every task that queues
Tick ==
    /\ \E t \in Tasks : clock[t] > 0 \/ Queueing(t)
    /\ clock' = [t \in Tasks |-> IF clock[t] > 0 THEN clock[t] - 1 ELSE clock[t]]
    /\ queued' = [t \in Tasks |-> IF Queueing(t) THEN queued[t] + 1 ELSE queued[t]]
    /\ UNCHANGED <<args, fs, prog, main_pc, tests, test_count, permits,
                   failed_tests, progress, pc, child, stdin_rx, stdin_open,
                   spawned, ret, results, stats>>

\* mutant: an execution error is not counted as failed
CountsAsFailedNoError(r) == r.kind = "TimedOut" \/ (r.kind = "Finished" /\ ~r.correct)

\* whether the task counts its result as failed
CountsAsFailed(r) == ~(r.kind = "Finished" /\ r.correct)

\* mutant: a task that ends in an execution error keeps its permit
TallyKeepsPermitOnError(t) ==
    /\ pc[t] = "tally"
    /\ failed_tests' = failed_tests + (IF CountsAsFailed(ret[t]) THEN 1 ELSE 0)
    /\ progress' = progress + 1
    /\ results' = Append(results, ret[t])
    /\ permits' = permits + (IF ret[t].kind = "Err" THEN 0 ELSE 1)
    /\ pc' = [pc EXCEPT ![t] = "done"]
    /\ UNCHANGED <<args, fs, prog, main_pc, tests, test_count, child, stdin_rx,
                   stdin_open, clock, spawned, queued, ret, stats>>

\* mutant: the progress bar is not advanced after an execution error
TallyNoProgressOnError(t) ==
    /\ pc[t] = "tally"
    /\ failed_tests' = failed_tests + (IF CountsAsFailed(ret[t]) THEN 1 ELSE 0)
    /\ progress' = progress + (IF ret[t].kind = "Err" THEN 0 ELSE 1)
    /\ results' = Append(results, ret[t])
    /\ permits' = permits + 1
    /\ pc' = [pc EXCEPT ![t] = "done"]
    /\ UNCHANGED <<args, fs, prog, main_pc, tests, test_count, child, stdin_rx,
                   stdin_open, clock, spawned, queued, ret, stats>>

\* the rest of the task: the failure count, the progress bar, the return
\* and the drop of the permit
Tally(t) ==
    /\ pc[t] = "tally"
    /\ failed_tests' = failed_tests + (IF CountsAsFailed(ret[t]) THEN 1 ELSE 0)
    /\ progress' = progress + 1
    /\ results' = Append(results, ret[t])
    /\ permits' = permits + 1
    /\ pc' = [pc EXCEPT ![t] = "done"]
    /\ UNCHANGED <<args, fs, prog, main_pc, tests, test_count, child, stdin_rx,
                   stdin_open, clock, spawned, queued, ret, stats>>

\* the names of results, in order
NamesOf(rs) == [i \in 1..Len(rs) |-> rs[i].name]

\* mutant: the fold stops after the first timeout it meets
FoldUntilTimeout(rs) ==
    LET cut == {i \in 1..Len(rs) : rs[i].kind = "TimedOut"}
        n == IF cut = {} THEN Len(rs) ELSE CHOOSE i \in cut : \A j \in cut : i <= j
        head == SubSeq(rs, 1, n)
        pass(r) == r.kind = "Finished" /\ r.correct
        fail(r) == r.kind = "Finished" /\ ~r.correct
        tout(r) == r.kind = "TimedOut"
    IN [pass |-> NamesOf(SelectSeq(head, pass)),
        fail |-> NamesOf(SelectSeq(head, fail)),
        timeout |-> NamesOf(SelectSeq(head, tout))]

\* the fold of the Ok results into TestStats
Fold(rs) ==
    LET pass(r) == r.kind = "Finished" /\ r.correct
        fail(r) == r.kind = "Finished" /\ ~r.correct
        tout(r) == r.kind = "TimedOut"
    IN [pass |-> NamesOf(SelectSeq(rs, pass)),
        fail |-> NamesOf(SelectSeq(rs, fail)),
        timeout |-> NamesOf(SelectSeq(rs, tout))]

\* every task has returned: main folds the results and prints the report
Report ==
    /\ main_pc = "collect"
    /\ \A t \in Tasks : pc[t] = "done"
    /\ stats' = Fold(results)
    /\ main_pc' = "reported"
    /\ UNCHANGED <<args, fs, prog, tests, test_count, permits, failed_tests,
                   progress, pc, child, stdin_rx, stdin_open, clock, spawned,
                   queued, ret, results>>

Next ==
    \/ GetTests
    \/ \E t \in Tasks : Acquire(t)
    \/ \E t \in Tasks : FeedStdin(t)
    \/ \E t \in Tasks : ChildExit(t)
    \/ \E t \in Tasks : Complete(t)
    \/ \E t \in Tasks : TimerFire(t)
    \/ Tick
    \/ \E t \in Tasks : Tally(t)
    \/ Report

Spec == Init /\ [][Next]_vars

\* a step of main, of a task or of the clock: everything but a command
\* terminating by itself
Progress ==
    \/ GetTests
    \/ \E t \in Tasks : Acquire(t) \/ FeedStdin(t) \/ Complete(t) \/ TimerFire(t) \/ Tally(t)
    \/ Tick
    \/ Report

\* the runtime polls a task that is ready and time passes; nothing makes a
\* command terminate
Fairness == WF_vars(Progress)

FairSpec == Spec /\ Fairness

\* ------------------------------------------------------------ comparison
\* The same program run on one test whose stdout is any byte string of
\* tab, line feed, carriage return, space, "0", "2" and "4" up to MaxLen
\* bytes, against the expected outputs "", "42", "420" and "4 2".
Bytes == {9, 10, 13, 32, 48, 50, 52}
ByteSeqs == UNION {[1..k -> Bytes] : k \in 0..MaxLen}
Expecteds == {<<>>, <<52, 50>>, <<52, 50, 48>>, <<52, 32, 50>>}

TrimInit ==
    /\ args = [task |-> TASK, in_pattern |-> PLACE_TASK \o PLACE_TEST \o <<".", "i">>,
               out_pattern |-> OUT_PATTERN, timeout |-> 1, parallel |-> 1]
    /\ \E e \in Expecteds :
          fs = << File(<<"a", "1", ".", "i">>, <<>>), File(<<"a", "1", ".", "o">>, e) >>
    /\ \E o \in ByteSeqs : prog = [i \in Stdins |-> o]
    /\ main_pc = "get_tests"
    /\ tests = <<>>
    /\ test_count = 0
    /\ permits = 0
    /\ failed_tests = 0
    /\ progress = 0
    /\ pc = <<>>
    /\ child = <<>>
    /\ stdin_rx = <<>>
    /\ stdin_open = <<>>
    /\ clock = <<>>
    /\ spawned = <<>>
    /\ queued = <<>>
    /\ ret = <<>>
    /\ results = <<>>
    /\ stats = [pass |-> <<>>, fail |-> <<>>, timeout |-> <<>>]

TrimSpec == TrimInit /\ [][Next]_vars

\* ------------------------------------------------------------ claims
Alive == {t \in Tasks : child[t] = "running"}
Holders == {t \in Tasks : HoldsPermit(t)}
Terminal(t) == ret[t].kind \in {"Finished", "TimedOut", "Err"}
Has(seq, x) == \E i \in 1..Len(seq) : seq[i] = x

\* C1: with maximum parallelism P >= 1, at most P child processes are alive
\* in every state, and every live child belongs to a task that holds one of
\* the P permits.
C1_BoundedChildren ==
    args.parallel >= 1 =>
        /\ Cardinality(Alive) <= args.parallel
        /\ Alive \subseteq Holders
        /\ Cardinality(Holders) <= args.parallel

\* three tests under parallelism 1: one child runs, one task still waits
C1_Witness ==
    /\ args.parallel = 1
    /\ args.timeout >= 1
    /\ Len(tests) >= 3
    /\ Cardinality(Alive) = 1
    /\ \E t \in Tasks : pc[t] = "acquire"
    /\ \E t \in Tasks : pc[t] = "done"

\* C2: with parallelism >= 1 and a timeout > 0, under fair scheduling every
\* discovered test reaches one terminal result, which then never changes,
\* after spawning at most one child, and main prints the report; no command
\* is required to terminate.
C2_RunCompletes ==
    /\ [][\A t \in Tasks : t \in DOMAIN ret' /\ (Terminal(t) => ret'[t] = ret[t])]_vars
    /\ [](\A t \in Tasks : spawned[t] <= 1)
    /\ (main_pc = "collect" /\ args.parallel >= 1 /\ args.timeout > 0)
          ~> (main_pc = "reported" /\ \A t \in Tasks : Terminal(t))

\* the report is out although a command never terminated and was killed
C2_Witness ==
    /\ main_pc = "reported"
    /\ args.timeout > 0
    /\ Len(tests) >= 3
    /\ \E t \in Tasks : child[t] = "killed" /\ ret[t].kind = "TimedOut"
    /\ \E t \in Tasks : ret[t].kind = "Finished"

\* C3: whenever the child has terminated before the timeout and the input
\* and expected-output files are readable, run returns Finished with
\* correct = (trimmed stdout = trimmed expected output), and the report has
\* the test in the pass set if correct and in the fail set if not.
C3_CompletedIffTrimmedEqual ==
    /\ [][\A t \in Tasks :
            ( /\ pc[t] = "wait"
              /\ child[t] = "exited"
              /\ pc'[t] = "tally"
              /\ Readable(fs, tests[t].in_file)
              /\ Readable(fs, tests[t].out_file) )
            => ret'[t] = Finished(tests[t].name,
                                  trim(prog[stdin_rx[t]]) = trim(get_output(fs, tests[t])))]_vars
    /\ [](main_pc = "reported" =>
            \A t \in Tasks :
                ret[t].kind = "Finished" =>
                    IF ret[t].correct THEN Has(stats.pass, ret[t].name)
                                      ELSE Has(stats.fail, ret[t].name))

\* C4: a task whose timeout elapsed returned TimedOut with its test's name,
\* its child was killed (or had already terminated) and the report has the
\* name in the timeout set; and when the race at the wait is decided while
\* the child has not terminated, the result is TimedOut, never an error or
\* a Finished, and the child is killed.
C4_TimedOutKillsChild ==
    /\ [](\A t \in Tasks :
            ret[t].kind = "TimedOut" =>
                /\ ret[t] = TimedOut(tests[t].name)
                /\ child[t] \in {"killed", "exited"}
                /\ (main_pc = "reported" => Has(stats.timeout, tests[t].name)))
    /\ [][\A t \in Tasks :
            (pc[t] = "wait" /\ child[t] = "running" /\ ret'[t] # ret[t])
            => /\ clock[t] = 0
               /\ ret'[t] = TimedOut(tests[t].name)
               /\ child'[t] = "killed"]_vars

\* a command that never terminated was killed and is reported as timed out
C4_Witness ==
    /\ main_pc = "reported"
    /\ args.timeout >= 1
    /\ \E t \in Tasks :
          /\ ret[t] = TimedOut(tests[t].name)
          /\ child[t] = "killed"
          /\ pc[t] = "done"
          /\ Has(stats.timeout, tests[t].name)

NoDup(seq) == \A i, j \in 1..Len(seq) : i # j => seq[i] # seq[j]
Errors == {t \in Tasks : ret[t].kind = "Err"}

\* C5: when the report is printed every test is in exactly one of pass,
\* fail, timeout and execution error; a test that ended in an execution
\* error is in none of the three sets; no name is twice in a set or in two
\* sets; and the total is |pass| + |fail| + |timeout| + errors.
C5_FourBuckets ==
    main_pc = "reported" =>
        /\ \A t \in Tasks : Terminal(t)
        /\ \A t \in Errors :
              /\ ~Has(stats.pass, tests[t].name)
              /\ ~Has(stats.fail, tests[t].name)
              /\ ~Has(stats.timeout, tests[t].name)
        /\ NoDup(stats.pass \o stats.fail \o stats.timeout)
        /\ test_count = Len(stats.pass) + Len(stats.fail) + Len(stats.timeout)
                          + Cardinality(Errors)

\* C6: the step in which a task times out or ends in an execution error
\* leaves every other task's child, timeout, position (and with it its
\* permit) and result as they were; and after such a step every task still
\* reaches a terminal result and the report is printed.
C6_SiblingsUntouched ==
    /\ [][\A t \in Tasks :
            (ret[t] = NoRet /\ ret'[t].kind \in {"TimedOut", "Err"})
            => \A s \in Tasks \ {t} :
                  /\ child'[s] = child[s]
                  /\ clock'[s] = clock[s]
                  /\ pc'[s] = pc[s]
                  /\ ret'[s] = ret[s]
                  /\ stdin_rx'[s] = stdin_rx[s]]_vars
    /\ (\E t \in Tasks : ret[t].kind \in {"TimedOut", "Err"})
          ~> (main_pc = "reported" /\ \A t \in Tasks : Terminal(t))

\* one task has just timed out while a sibling's command still runs
C6_Witness ==
    \E t, s \in Tasks :
        /\ t # s
        /\ pc[t] = "tally"
        /\ ret[t].kind = "TimedOut"
        /\ child[t] = "killed"
        /\ pc[s] = "wait"
        /\ child[s] = "running"
        /\ clock[s] > 0

\* C7: with no {test} placeholder in the input pattern, discovery fails
\* and main goes on neither to the tasks nor to the report.
C7_MissingPlaceholderFails ==
    ~Contains(args.in_pattern, PLACE_TEST) => main_pc \in {"get_tests", "error"}

\* the pattern handed to glob and the files it matches
GlobPattern == Replace(Replace(args.in_pattern, PLACE_TASK, args.task), PLACE_TEST, STAR)
Matching == Glob(GlobPattern, fs)

\* C8: with the {test} placeholder in the input pattern, and the pattern
\* one that glob can match files against, get_tests succeeds and returns
\* one descriptor per matching file, with pairwise distinct test ids.
C8_OneDistinctIdPerFile ==
    ( /\ Contains(args.in_pattern, PLACE_TEST)
      /\ ~InvalidGlob(GlobPattern)
      /\ main_pc # "get_tests" ) =>
        /\ main_pc \notin {"error", "panic"}
        /\ Len(tests) = Len(Matching)
        /\ \A i, j \in 1..Len(tests) : i # j => tests[i].name # tests[j].name

\* C9: when run awaits the child's termination, the child's stdin has
\* received the whole input file, in order, and has been closed.
C9_WholePayloadDelivered ==
    \A t \in Tasks :
        pc[t] = "wait" =>
            /\ stdin_rx[t] = get_input(fs, tests[t])
            /\ ~stdin_open[t]

\* C10: a task that waits for a permit has no timeout, no child and no
\* result; the timeout is created with the whole configured duration in
\* the step that takes the permit and spawns the child, however long the
\* task queued; it only loses one tick at a time; and a task is reported
\* TimedOut only when its timeout has run down while it holds a permit.
C10_ClockStartsAtAdmission ==
    /\ [](\A t \in Tasks :
            pc[t] = "acquire" =>
                clock[t] = NoTimer /\ ret[t] = NoRet /\ child[t] = "none")
    /\ [][\A t \in Tasks :
            /\ (pc[t] = "acquire" /\ pc'[t] = "get_input")
                  => (clock'[t] = args.timeout /\ child'[t] = "running")
            /\ (clock[t] # NoTimer /\ pc'[t] = pc[t])
                  => clock'[t] \in {clock[t], clock[t] - 1}
            /\ (ret[t] = NoRet /\ ret'[t].kind = "TimedOut")
                  => (clock[t] = 0 /\ HoldsPermit(t))]_vars

\* under parallelism 1 a task waited for the permit while another task's
\* whole timeout ran down, was admitted and timed out in its turn
C10_Witness ==
    \E t, s \in Tasks :
        /\ t # s
        /\ args.parallel = 1
        /\ args.timeout >= 1
        /\ pc[s] = "done"
        /\ ret[s].kind = "TimedOut"
        /\ pc[t] = "tally"
        /\ ret[t].kind = "TimedOut"

Range(seq) == {seq[i] : i \in 1..Len(seq)}
Passed == {t \in Tasks : ret[t].kind = "Finished" /\ ret[t].correct}
Failed == {t \in Tasks : ret[t].kind = "Finished" /\ ~ret[t].correct}
TimedOuts == {t \in Tasks : ret[t].kind = "TimedOut"}

\* C11: the report is a function of the tests and of their individual
\* results alone, whatever the order in which the tasks returned: each of
\* the pass, fail and timeout sets holds the names of the tests with that
\* result, each count is the number of such tests, and the total is the
\* number of tests.
C11_ReportIndependentOfOrder ==
    main_pc = "reported" =>
        /\ Range(stats.pass) = {ret[t].name : t \in Passed}
        /\ Range(stats.fail) = {ret[t].name : t \in Failed}
        /\ Range(stats.timeout) = {ret[t].name : t \in TimedOuts}
        /\ Len(stats.pass) = Cardinality(Passed)
        /\ Len(stats.fail) = Cardinality(Failed)
        /\ Len(stats.timeout) = Cardinality(TimedOuts)
        /\ test_count = Cardinality(Tasks)

\* three tests returned in another order than they were created, with a
\* pass, a fail and a timeout among them
C11_Witness ==
    /\ main_pc = "reported"
    /\ Len(tests) = 3
    /\ results[1] = ret[3]
    /\ results[3] = ret[1]
    /\ results[1].kind = "TimedOut"
    /\ Passed # {}
    /\ Failed # {}

\* C12: when glob rejects the pattern, or the walk cannot read a directory
\* it has to descend into, discovery fails: main ends in the error, no task
\* is created and no report is printed.
C12_DiscoveryFailureIsFatal ==
    (InvalidGlob(GlobPattern) \/ GlobErrors(GlobPattern, fs) # {}) =>
        /\ main_pc \in {"get_tests", "error"}
        /\ Tasks = {}

\* C13: once main has built the semaphore and spawned the tasks, the
\* maximum parallelism is at least 1 and the timeout is greater than 0.
C13_ConfigPositive ==
    main_pc \in {"collect", "reported"} =>
        /\ args.parallel >= 1
        /\ args.timeout > 0

\* what the child printed and what the test expects
Stdout(t) == prog[stdin_rx[t]]
Expected(t) == get_output(fs, tests[t])

\* C14: trimming what trim returned gives the same bytes again, for the
\* stdout and the expected output of every test that was compared.
C14_TrimIdempotent ==
    \A t \in Tasks :
        ret[t].kind = "Finished" =>
            /\ trim(trim(Stdout(t))) = trim(Stdout(t))
            /\ trim(trim(Expected(t))) = trim(Expected(t))

\* a compared stdout with whitespace at both ends and bytes left between
C14_Witness ==
    \E t \in Tasks :
        /\ ret[t].kind = "Finished"
        /\ Len(Stdout(t)) >= 3
        /\ Stdout(t)[1] = 32
        /\ Stdout(t)[Len(Stdout(t))] = 10
        /\ trim(Stdout(t)) # <<>>

\* space, tab, carriage return, line feed
WS == {32, 9, 13, 10}

\* r is s without its longest leading and its longest trailing run of
\* whitespace bytes, and nothing else is removed
Stripped(s, r) ==
    /\ \E i, j \in 0..Len(s) :
          /\ i + j <= Len(s)
          /\ r = SubSeq(s, i + 1, Len(s) - j)
          /\ \A k \in 1..i : s[k] \in WS
          /\ \A k \in (Len(s) - j + 1)..Len(s) : s[k] \in WS
    /\ r # <<>> => (r[1] \notin WS /\ r[Len(r)] \notin WS)
    /\ (\A k \in 1..Len(s) : s[k] \in WS) => r = <<>>

\* C15: for the stdout and the expected output of every test that was
\* compared, trim returns the bytes without the longest leading and
\* trailing run of space, tab, carriage return and line feed, keeps what
\* lies between, and returns nothing for whitespace only; "42\n" against
\* "42" is correct and "42\n" against "420" is not.
C15_TrimStripsEdgesOnly ==
    \A t \in Tasks :
        ret[t].kind = "Finished" =>
            /\ Stripped(Stdout(t), trim(Stdout(t)))
            /\ Stripped(Expected(t), trim(Expected(t)))
            /\ (Stdout(t) = <<52, 50, 10>> /\ Expected(t) = <<52, 50>>) => ret[t].correct
            /\ (Stdout(t) = <<52, 50, 10>> /\ Expected(t) = <<52, 50, 48>>) => ~ret[t].correct

\* "42\n" was compared with "420" and found wrong
C15_Witness ==
    \E t \in Tasks :
        /\ Stdout(t) = <<52, 50, 10>>
        /\ Expected(t) = <<52, 50, 48>>
        /\ ret[t] = Finished(tests[t].name, FALSE)
        /\ pc[t] = "done"

\* C16: for every descriptor get_tests returned, the input pattern with
\* the task name and the descriptor's test id put in is the matched input
\* path, and the output path is the output pattern with the task name and
\* the same test id put in.
C16_TestIdRoundTrips ==
    \A i \in 1..Len(tests) :
        /\ Replace(Replace(args.in_pattern, PLACE_TASK, args.task), PLACE_TEST, tests[i].name)
              = tests[i].in_file
        /\ Replace(Replace(args.out_pattern, PLACE_TASK, args.task), PLACE_TEST, tests[i].name)
              = tests[i].out_file

Returned == {t \in Tasks : pc[t] = "done"}

\* C17: once the semaphore exists, the permits held by tasks and the
\* permits available add up to the maximum parallelism; a task takes one
\* permit when it is admitted and gives one back when it returns, whatever
\* its result; and a run with parallelism >= 1 reaches the report with all
\* permits available again, so no task waits for one for ever.
C17_SlotsConserved ==
    /\ [](main_pc \in {"collect", "reported"} =>
            /\ permits >= 0
            /\ Cardinality(Holders) + permits = args.parallel)
    /\ [][\A t \in Tasks :
            /\ (pc[t] = "acquire" /\ pc'[t] # "acquire") => permits' = permits - 1
            /\ (pc[t] # "done" /\ pc'[t] = "done")
                  => (Terminal(t) /\ HoldsPermit(t) /\ permits' = permits + 1)
            /\ (pc[t] = "done") => pc'[t] = "done"]_vars
    /\ (main_pc = "collect" /\ args.parallel >= 1)
          ~> (main_pc = "reported" /\ permits = args.parallel)

\* three tests shared one permit; one ended in an execution error, one
\* timed out, one was compared, and the permit is back
C17_Witness ==
    /\ main_pc = "reported"
    /\ args.parallel = 1
    /\ permits = 1
    /\ Len(tests) = 3
    /\ Errors # {}
    /\ TimedOuts # {}
    /\ Passed \cup Failed # {}

\* C18: the progress count is the number of tasks that have returned; it
\* grows by one, in the step in which a task with a terminal result
\* returns, whatever the result; and when the report is printed it is the
\* number of discovered tests.
C18_ProgressCountsTerminal ==
    /\ [](progress = Cardinality(Returned))
    /\ [](\A t \in Returned : Terminal(t))
    /\ [](main_pc = "reported" => progress = test_count)
    /\ [][/\ progress' \in {progress, progress + 1}
          /\ \A t \in Tasks :
                (Terminal(t) /\ pc[t] # "done" /\ pc'[t] = "done")
                    => progress' = progress + 1]_vars

\* the bar stands at 3 of 3 after a fail, a timeout and an execution error
C18_Witness ==
    /\ main_pc = "reported"
    /\ progress = 3
    /\ test_count = 3
    /\ Errors # {}
    /\ TimedOuts # {}
    /\ Failed # {}

\* C19: the failure counter is the number of returned tasks whose result
\* is no correct completion; when the report is printed it is failed +
\* timed out + execution errors, which is the total minus the pass set.
C19_NoLostFailure ==
    /\ failed_tests = Cardinality(Returned \cap (Failed \cup TimedOuts \cup Errors))
    /\ main_pc = "reported" =>
          /\ failed_tests = Len(stats.fail) + Len(stats.timeout) + Cardinality(Errors)
          /\ failed_tests = test_count - Len(stats.pass)

\* two tasks ran at the same time; one passed, two did not, one of them
\* with an execution error
C19_Witness ==
    /\ main_pc = "reported"
    /\ args.parallel >= 2
    /\ test_count = 3
    /\ failed_tests = 2
    /\ Len(stats.pass) = 1
    /\ Errors # {}

====
